---- MODULE Spec2Model ----
(***************************************************************************)
(* Project & session resolution engine of server/types/api.ts:            *)
(* the directory resolver with its process-wide cache, the session        *)
(* aggregator, the config store and the project catalog operations.       *)
(*                                                                         *)
(* Strings are sequences of one-character strings, so that the identifier *)
(* encoding, trimming and path splitting are computed as the code does.   *)
(* A log line is a record: kind "json" is a line JSON.parse turns into an *)
(* object, "bad" a line on which parsing or the field access throws,      *)
(* "blank" a line whose trim() is empty.  Absent string fields are <<>>   *)
(* or "" (both falsy in the code), an absent timestamp is 0; role "" is a   *)
(* line without a message, plain = FALSE a message whose content is not a  *)
(* string.                                                                 *)
(***************************************************************************)
EXTENDS Naturals, Sequences, FiniteSets, TLC

VARIABLES
  dirs,        \* names of the project directories under ~/.claude/projects
  unreadable,  \* project directories on which fs.readdir fails
  files,       \* name -> the .jsonl files of the directory, in readdir order
  config,      \* the persisted project-config.json: <<name, entry>> in key order
  configBroken, \* project-config.json cannot be read or parsed
  cache,       \* projectDirectoryCache: name -> path
  last,        \* the last operation: what was called and what it returned
  calls        \* the calls in flight: what each has read and not yet written

vars == <<dirs, unreadable, files, config, configBroken, cache, last, calls>>

---------------------------------------------------------------------------
(* Bounds *)

MaxLines == 6      \* lines the decision specification lets a project hold

---------------------------------------------------------------------------
(* Strings *)

PA == <<"/", "a">>
PB == <<"/", "b">>
PLong == <<"/", "h", "/", "u", "/", "p", "/", "a">>
PSlash == <<"/", "a", "/">>
PGone == <<"/", "z">>
PDash == <<"/", "a", "-", "b">>

Min(a, b) == IF a < b THEN a ELSE b

SetMax(S) == CHOOSE m \in S : \A n \in S : n <= m

SetMin(S) == CHOOSE m \in S : \A n \in S : m <= n

\* s.replace(/from/g, to) for a one-character pattern
ReplaceAll(s, from, to) == [i \in 1..Len(s) |-> IF s[i] = from THEN to ELSE s[i]]

\* projectName.replace('-', '/'): the first occurrence only
DecodeFirst(name) ==
  LET at == {i \in 1..Len(name) : name[i] = "-"}
  IN [i \in 1..Len(name) |-> IF at # {} /\ i = SetMin(at) THEN "/" ELSE name[i]]

\* projectName.replace(/-/g, '/')
Decode(name) == ReplaceAll(name, "-", "/")

\* absolutePath.replace(/\//g, '-')
Encode(path) == ReplaceAll(path, "/", "-")

RECURSIVE TrimLeft(_)
TrimLeft(s) == IF s # <<>> /\ Head(s) = " " THEN TrimLeft(Tail(s)) ELSE s

RECURSIVE TrimRight(_)
TrimRight(s) ==
  IF s # <<>> /\ s[Len(s)] = " " THEN TrimRight(SubSeq(s, 1, Len(s) - 1)) ELSE s

\* String.prototype.trim
Trim(s) == TrimRight(TrimLeft(s))

StartsWith(s, pre) == Len(s) >= Len(pre) /\ SubSeq(s, 1, Len(pre)) = pre

\* path.resolve on an absolute path: drops trailing separators
RECURSIVE PathResolve(_)
PathResolve(p) ==
  IF Len(p) > 1 /\ p[Len(p)] = "/" THEN PathResolve(SubSeq(p, 1, Len(p) - 1)) ELSE p

---------------------------------------------------------------------------
(* Log lines *)

NoStr == <<>>

Line(kind, sid, type, ts, cwd, summary, role, content, plain) ==
  [kind |-> kind, sessionId |-> sid, type |-> type, timestamp |-> ts, cwd |-> cwd,
   summary |-> summary, role |-> role, content |-> content, plain |-> plain]

BadLine == Line("bad", "", "", 0, NoStr, NoStr, "", NoStr, TRUE)
BlankLine == Line("blank", "", "", 0, NoStr, NoStr, "", NoStr, TRUE)

\* an entry that only carries a cwd and a timestamp
CwdEntry(cwd, ts) == Line("json", "", "", ts, cwd, NoStr, "", NoStr, TRUE)

\* a message entry of a session; plain: message.content is a string
MsgEntry(sid, ts, cwd, role, content) ==
  Line("json", sid, role, ts, cwd, NoStr, role, content, TRUE)

\* a summary marker of a session
SummaryEntry(sid, text) == Line("json", sid, "summary", 0, NoStr, text, "", NoStr, TRUE)

\* line.trim() is non-empty and JSON.parse(line) yields an object
Parses(l) == l.kind = "json"

File(lines, mtime, readable) == [lines |-> lines, mtime |-> mtime, readable |-> readable]

---------------------------------------------------------------------------
(* DirectoryResolver: extractProjectDirectory *)

ScanInit == [counts |-> <<>>, latestTimestamp |-> 0, latestCwd |-> NoStr]

\* cwdCounts.set(cwd, (cwdCounts.get(cwd) || 0) + 1): a Map keeps insertion order
CountsAdd(counts, cwd) ==
  IF \E i \in 1..Len(counts) : counts[i].cwd = cwd
    THEN [i \in 1..Len(counts) |->
            IF counts[i].cwd = cwd THEN [cwd |-> cwd, n |-> counts[i].n + 1] ELSE counts[i]]
    ELSE Append(counts, [cwd |-> cwd, n |-> 1])

\* cwdCounts.get(cwd) || 0
CountsGet(counts, cwd) ==
  IF \E i \in 1..Len(counts) : counts[i].cwd = cwd
    THEN counts[CHOOSE i \in 1..Len(counts) : counts[i].cwd = cwd].n
    ELSE 0

\* the cwd of an entry counted only when the entry has a sessionId
ScanEntryOfSession(acc, l) ==
  IF Parses(l) /\ l.cwd # NoStr /\ l.sessionId # ""
    THEN [counts |-> CountsAdd(acc.counts, l.cwd),
          latestTimestamp |->
            IF l.timestamp > acc.latestTimestamp THEN l.timestamp ELSE acc.latestTimestamp,
          latestCwd |->
            IF l.timestamp > acc.latestTimestamp THEN l.cwd ELSE acc.latestCwd]
    ELSE acc

\* the body of the for-await loop over one line
ScanEntry(acc, l) ==
  IF Parses(l) /\ l.cwd # NoStr
    THEN [counts |-> CountsAdd(acc.counts, l.cwd),
          latestTimestamp |->
            IF l.timestamp > acc.latestTimestamp THEN l.timestamp ELSE acc.latestTimestamp,
          latestCwd |->
            IF l.timestamp > acc.latestTimestamp THEN l.cwd ELSE acc.latestCwd]
    ELSE acc

RECURSIVE ScanLines(_, _)
ScanLines(lines, acc) ==
  IF lines = <<>> THEN acc ELSE ScanLines(Tail(lines), ScanEntry(acc, Head(lines)))

\* for (const file of jsonlFiles): readdir order
RECURSIVE ScanFiles(_, _)
ScanFiles(fs, acc) ==
  IF fs = <<>> THEN acc ELSE ScanFiles(Tail(fs), ScanLines(Head(fs).lines, acc))

\* Math.max(...cwdCounts.values())
MaxCount(counts) == SetMax({counts[i].n : i \in 1..Len(counts)})

\* mostRecentCount >= maxCount * 0.25, on integers
RecentEnoughWrong(mostRecentCount, maxCount) == 10 * mostRecentCount >= maxCount

RecentEnough(mostRecentCount, maxCount) == 4 * mostRecentCount >= maxCount

\* "Determine the best cwd to use"
DecideCwd(acc, name) ==
  IF Len(acc.counts) = 0 THEN Decode(name)
  ELSE IF Len(acc.counts) = 1 THEN acc.counts[1].cwd
  ELSE IF RecentEnough(CountsGet(acc.counts, acc.latestCwd), MaxCount(acc.counts))
    THEN acc.latestCwd
    ELSE acc.counts[SetMin({i \in 1..Len(acc.counts) :
                              acc.counts[i].n = MaxCount(acc.counts)})].cwd

\* the scan of the files readdir listed: the path and the number of files opened
ScanListed(name, fs) ==
  IF fs = <<>>
    THEN [path |-> Decode(name), scanned |-> 0]
  ELSE IF \E i \in 1..Len(fs) : ~fs[i].readable
    THEN [path |-> Decode(name),
          scanned |-> SetMin({i \in 1..Len(fs) : ~fs[i].readable})]
  ELSE [path |-> DecideCwd(ScanFiles(fs, ScanInit), name),
        scanned |-> Len(fs)]

\* the scan of an uncached project
ScanProject(name) ==
  IF name \notin dirs \/ name \in unreadable
    THEN [path |-> Decode(name), scanned |-> 0]
    ELSE ScanListed(name, files[name])

\* the result stored in a map of its own instead of the shared one
ExtractUncachedAlone(name, c) ==
  LET r == ScanProject(name)
  IN [path |-> r.path, scanned |-> r.scanned, cache |-> [n \in {name} |-> r.path]]

\* the cache miss of extractProjectDirectory: scan, cache the result, return it
ExtractUncached(name, c) ==
  LET r == ScanProject(name)
  IN [path |-> r.path,
      scanned |-> r.scanned,
      cache |-> [n \in DOMAIN c \cup {name} |-> IF n = name THEN r.path ELSE c[n]]]

\* the lookup left out: every call scans
ExtractAlwaysScans(name, c) == ExtractUncached(name, c)

ExtractProjectDirectory(name, c) ==
  IF name \in DOMAIN c
    THEN [path |-> c[name], scanned |-> 0, cache |-> c]
    ELSE ExtractUncached(name, c)

---------------------------------------------------------------------------
(* Operations record *)

NoOp ==
  [op |-> "init", name |-> NoStr, arg |-> NoStr, ok |-> TRUE, miss |-> FALSE,
   path |-> NoStr, scanned |-> 0, sessions |-> <<>>, total |-> 0, hasMore |-> FALSE,
   limit |-> 0, offset |-> 0, projects |-> <<>>, sid |-> "", file |-> 0]

NoConfig == <<>>

\* no call is in flight
NoCalls == <<>>

NoCache == [n \in {} |-> NoStr]

\* resolve(name)
Resolve(name) ==
  /\ LET r == ExtractProjectDirectory(name, cache)
     IN /\ cache' = r.cache
        /\ last' = [NoOp EXCEPT !.op = "resolve", !.name = name,
                                !.miss = (name \notin DOMAIN cache),
                                !.path = r.path, !.scanned = r.scanned]
  /\ UNCHANGED <<dirs, unreadable, files, config, configBroken, calls>>

\* The calls still in flight when the cache is cleared: nothing in the code
\* reaches them, the note `old` only says that they started before the clear.
\* The calls that have returned are forgotten with the paths they had cached.
Outlived ==
  LET inFlight == SelectSeq(calls, LAMBDA c : c.pc = "read")
  IN [i \in 1..Len(inFlight) |-> [inFlight[i] EXCEPT !.old = TRUE]]

\* invalidate(): clearProjectDirectoryCache
Invalidate ==
  /\ cache' = NoCache
  /\ calls' = Outlived
  /\ last' = [NoOp EXCEPT !.op = "invalidate"]
  /\ UNCHANGED <<dirs, unreadable, files, config, configBroken>>

---------------------------------------------------------------------------
(* The resolver's decision on bounded log contents *)

RA == <<"/", "r">>
RB == <<"/", "s">>

NameA == Encode(PA)
NameB == Encode(PB)

DecideLines == {CwdEntry(RA, 0), CwdEntry(RA, 1), CwdEntry(RB, 0), CwdEntry(RB, 1)}

SeqsUpTo(S, n) == UNION {[1..k -> S] : k \in 0..n}

InitDecide ==
  /\ dirs = {NameA}
  /\ unreadable = {}
  /\ \E s \in SeqsUpTo(DecideLines, MaxLines) : \E k \in 0..Len(s) :
       files = [n \in {NameA} |->
                  <<File(SubSeq(s, 1, k), 1, TRUE), File(SubSeq(s, k + 1, Len(s)), 2, TRUE)>>]
  /\ config = NoConfig
  /\ configBroken = FALSE
  /\ cache = NoCache
  /\ last = NoOp
  /\ calls = NoCalls

NextDecide ==
  \/ Resolve(NameA)
  \/ Invalidate

SpecDecide == InitDecide /\ [][NextDecide]_vars

\* The cwd votes of a project as the claim sees them: the places <<file, line>>
\* of the entries that carry a cwd, in the order the resolver meets them.
CwdPlaces(name) ==
  {pl \in UNION {{<<f, i>> : i \in 1..Len(files[name][f].lines)} : f \in 1..Len(files[name])} :
     /\ Parses(files[name][pl[1]].lines[pl[2]])
     /\ files[name][pl[1]].lines[pl[2]].cwd # NoStr}

EntryAt(name, pl) == files[name][pl[1]].lines[pl[2]]

Earlier(p1, p2) == p1[1] < p2[1] \/ (p1[1] = p2[1] /\ p1[2] < p2[2])

FirstPlace(S) == CHOOSE pl \in S : \A q \in S : q = pl \/ Earlier(pl, q)

CwdsSeen(name) == {EntryAt(name, pl).cwd : pl \in CwdPlaces(name)}

Votes(name, cwd) == Cardinality({pl \in CwdPlaces(name) : EntryAt(name, pl).cwd = cwd})

MaxVotes(name) == SetMax({Votes(name, c) : c \in CwdsSeen(name)})

GreatestTs(name) == SetMax({EntryAt(name, pl).timestamp : pl \in CwdPlaces(name)})

\* the cwd of the first entry that carries the greatest timestamp
LatestCwdOf(name) ==
  EntryAt(name, FirstPlace({pl \in CwdPlaces(name) :
                              EntryAt(name, pl).timestamp = GreatestTs(name)})).cwd

\* the first-encountered path among those with the most votes
FirstMaxCwd(name) ==
  EntryAt(name, FirstPlace({pl \in CwdPlaces(name) :
                              Votes(name, EntryAt(name, pl).cwd) = MaxVotes(name)})).cwd

RuleResult(name) ==
  IF CwdsSeen(name) = {} THEN Decode(name)
  ELSE IF Cardinality(CwdsSeen(name)) = 1 THEN CHOOSE c \in CwdsSeen(name) : TRUE
  ELSE IF GreatestTs(name) > 0 /\ 4 * Votes(name, LatestCwdOf(name)) >= MaxVotes(name)
    THEN LatestCwdOf(name)
    ELSE FirstMaxCwd(name)

Repeat(l, n) == [i \in 1..n |-> l]

\* counts {A:10, B:1} and {A:10, B:4}, B the latest
ExampleOne == Repeat(CwdEntry(RA, 1), 10) \o <<CwdEntry(RB, 2)>>
ExampleFour == Repeat(CwdEntry(RA, 1), 10) \o Repeat(CwdEntry(RB, 2), 4)

ExampleOneResult == DecideCwd(ScanLines(ExampleOne, ScanInit), Encode(PA))
ExampleFourResult == DecideCwd(ScanLines(ExampleFour, ScanInit), Encode(PA))

\* C2: a cache-missing resolve of a readable project returns the fallback path when
\* no cwd was seen, the only path when one was seen, and otherwise the latest cwd
\* (first entry with the greatest timestamp) iff its votes are at least a quarter of
\* the most votes, else the first-encountered path with the most votes; with no
\* timestamp later than the epoch no cwd is the latest.  {A:10, B:1} gives A and
\* {A:10, B:4} gives B.
C2_DecisionRule ==
  /\ (last.op = "resolve" /\ last.miss) => last.path = RuleResult(last.name)
  /\ ExampleOneResult = RA
  /\ ExampleFourResult = RB

\* a resolve that fell below the quarter threshold and took the majority path
C2_Witness ==
  /\ last.op = "resolve" /\ last.miss
  /\ Cardinality(CwdsSeen(NameA)) = 2
  /\ GreatestTs(NameA) > 0
  /\ 4 * Votes(NameA, LatestCwdOf(NameA)) < MaxVotes(NameA)
  /\ last.path = FirstMaxCwd(NameA)
  /\ last.path # LatestCwdOf(NameA)

---------------------------------------------------------------------------
(* The environment: the external CLI that writes the logs, and I/O failures *)

MaxFiles == 2      \* log files per project directory
MaxResLines == 2   \* lines per file in the memoization specification

\* Writing a file makes it the newest: only the order of the modification
\* times is visible to the code, so they are kept as ranks 1..Len.
Touch(fs, f) ==
  [i \in 1..Len(fs) |->
     IF i = f THEN [fs[i] EXCEPT !.mtime = Len(fs)]
     ELSE IF fs[i].mtime > fs[f].mtime THEN [fs[i] EXCEPT !.mtime = fs[i].mtime - 1]
     ELSE fs[i]]

\* the CLI appends a line to a log file
WriterAppend(name, f, l) ==
  /\ name \in dirs
  /\ f \in 1..Len(files[name])
  /\ files' = [files EXCEPT ![name] = Touch([@ EXCEPT ![f].lines = Append(@, l)], f)]
  /\ last' = [NoOp EXCEPT !.op = "write", !.name = name]
  /\ UNCHANGED <<dirs, unreadable, config, configBroken, cache, calls>>

\* the CLI starts a new log file; readdir may list it at either end
WriterNewFile(name, max) ==
  /\ name \in dirs
  /\ Len(files[name]) < max
  /\ \E atEnd \in BOOLEAN :
       files' = [files EXCEPT ![name] =
                   IF atEnd THEN Append(@, File(<<>>, Len(@) + 1, TRUE))
                   ELSE <<File(<<>>, Len(@) + 1, TRUE)>> \o @]
  /\ last' = [NoOp EXCEPT !.op = "write", !.name = name]
  /\ UNCHANGED <<dirs, unreadable, config, configBroken, cache, calls>>

\* fs.readdir on the directory starts or stops failing
DirFault(name) ==
  /\ name \in dirs
  /\ unreadable' = IF name \in unreadable THEN unreadable \ {name} ELSE unreadable \cup {name}
  /\ last' = [NoOp EXCEPT !.op = "fault", !.name = name]
  /\ UNCHANGED <<dirs, files, config, configBroken, cache, calls>>

\* opening a log file for reading starts or stops failing
FileFault(name, f) ==
  /\ name \in dirs
  /\ f \in 1..Len(files[name])
  /\ files' = [files EXCEPT ![name][f].readable = ~@]
  /\ last' = [NoOp EXCEPT !.op = "fault", !.name = name]
  /\ UNCHANGED <<dirs, unreadable, config, configBroken, cache, calls>>

---------------------------------------------------------------------------
(* Memoization of the resolver *)

MemoLines == {CwdEntry(RA, 1), CwdEntry(RB, 2)}

InitResolve ==
  /\ dirs = {NameA}
  /\ unreadable = {}
  /\ files = [n \in {NameA} |-> <<>>]
  /\ config = NoConfig
  /\ configBroken = FALSE
  /\ cache = NoCache
  /\ last = NoOp
  /\ calls = NoCalls

NextResolve ==
  \/ Resolve(NameA)
  \/ Invalidate
  \/ WriterNewFile(NameA, MaxFiles)
  \/ \E f \in 1..Len(files[NameA]), l \in MemoLines :
       Len(files[NameA][f].lines) < MaxResLines /\ WriterAppend(NameA, f, l)
  \/ DirFault(NameA)
  \/ \E f \in 1..Len(files[NameA]) : FileFault(NameA, f)

SpecResolve == InitResolve /\ [][NextResolve]_vars

\* C1: a resolve leaves its result cached; a resolve of a cached name returns the
\* cached path, opens no file and leaves the cache as it is; and nothing but
\* invalidate() removes or changes a cached path, whatever happens to the logs.
C1_Memoized ==
  [][/\ last'.op = "resolve" =>
          last'.name \in DOMAIN cache' /\ cache'[last'.name] = last'.path
     /\ (last'.op = "resolve" /\ last'.name \in DOMAIN cache) =>
          last'.path = cache[last'.name] /\ last'.scanned = 0 /\ cache' = cache
     /\ last'.op # "invalidate" =>
          \A n \in DOMAIN cache : n \in DOMAIN cache' /\ cache'[n] = cache[n]]_vars

\* a second resolve returned the memoized fallback of a directory that could not
\* be read, although the directory is readable again and its logs name another path
C1_Witness ==
  /\ last.op = "resolve" /\ ~last.miss
  /\ last.path = Decode(last.name)
  /\ last.name \notin unreadable
  /\ \A i \in 1..Len(files[last.name]) : files[last.name][i].readable
  /\ CwdsSeen(last.name) # {}
  /\ RuleResult(last.name) # last.path

---------------------------------------------------------------------------
(* SessionAggregator: parseJsonlSessions and getSessions *)

Placeholder == <<"N", "e", "w", " ", "S", "e", "s", "s", "i", "o", "n">>
CommandPrefix == <<"<", "c", "o", "m", "m", "a", "n", "d", "-", "n", "a", "m", "e", ">">>
Ellipsis == <<".", ".", ".">>
SummaryBudget == 50
EarlyExitFiles == 3

\* new Date(): later than every timestamp found in a log
Now == 9

\* content.length > 50 ? content.substring(0, 50) + '...' : content
DeriveSummary(content) ==
  IF Len(content) > SummaryBudget
    THEN SubSeq(content, 1, SummaryBudget) \o Ellipsis
    ELSE content

IndexOfId(sessions, id) == CHOOSE i \in 1..Len(sessions) : sessions[i].id = id

HasId(sessions, id) == \E i \in 1..Len(sessions) : sessions[i].id = id

\* the summary of session s after entry l
NextSummary(s, l) ==
  IF l.type = "summary" /\ l.summary # NoStr THEN l.summary
  ELSE IF l.role = "user" /\ (~l.plain \/ l.content # NoStr) /\ s.summary = Placeholder
    THEN IF l.plain /\ Len(l.content) > 0 /\ ~StartsWith(l.content, CommandPrefix)
           THEN DeriveSummary(l.content)
           ELSE s.summary
  ELSE s.summary

\* the body of the for-await loop of parseJsonlSessions over one line
ParseEntry(sessions, l) ==
  IF Parses(l) /\ l.sessionId # ""
    THEN LET base == IF HasId(sessions, l.sessionId) THEN sessions
                     ELSE Append(sessions, [id |-> l.sessionId, summary |-> Placeholder,
                                            messageCount |-> 0, lastActivity |-> Now,
                                            cwd |-> l.cwd])
             k == IndexOfId(base, l.sessionId)
         IN [base EXCEPT ![k] =
               [@ EXCEPT !.summary = NextSummary(base[k], l),
                         !.messageCount = @ + 1,
                         !.lastActivity = IF l.timestamp # 0 THEN l.timestamp ELSE @]]
    ELSE sessions

\* the parse error of a line ending the loop over the file
RECURSIVE ParseLinesStopAtBad(_, _)
ParseLinesStopAtBad(lines, sessions) ==
  IF lines = <<>> \/ Head(lines).kind = "bad" THEN sessions
  ELSE ParseLinesStopAtBad(Tail(lines), ParseEntry(sessions, Head(lines)))

RECURSIVE ParseLines(_, _)
ParseLines(lines, sessions) ==
  IF lines = <<>> THEN sessions
  ELSE ParseLines(Tail(lines), ParseEntry(sessions, Head(lines)))

\* Array.prototype.sort with (a, b) => key(b) - key(a): stable, descending
InsertDesc(sorted, x) ==
  LET lower == {i \in 1..Len(sorted) : sorted[i].key < x.key}
      at == IF lower = {} THEN Len(sorted) + 1 ELSE SetMin(lower)
  IN SubSeq(sorted, 1, at - 1) \o <<x>> \o SubSeq(sorted, at, Len(sorted))

RECURSIVE SortDescFrom(_, _)
SortDescFrom(todo, sorted) ==
  IF todo = <<>> THEN sorted ELSE SortDescFrom(Tail(todo), InsertDesc(sorted, Head(todo)))

SortDesc(keyed) == SortDescFrom(keyed, <<>>)

SortByLastActivity(sessions) ==
  LET keyed == [i \in 1..Len(sessions) |-> [key |-> sessions[i].lastActivity, val |-> sessions[i]]]
      out == SortDesc(keyed)
  IN [i \in 1..Len(out) |-> out[i].val]

\* parseJsonlSessions: a file that cannot be opened yields no session
ParseJsonlSessions(file) ==
  IF ~file.readable THEN <<>> ELSE SortByLastActivity(ParseLines(file.lines, <<>>))

\* filesWithStats.sort((a, b) => b.mtime - a.mtime)
NewestFirstUnsorted(fs) == fs

NewestFirst(fs) ==
  LET keyed == [i \in 1..Len(fs) |-> [key |-> fs[i].mtime, val |-> fs[i]]]
      out == SortDesc(keyed)
  IN [i \in 1..Len(out) |-> out[i].val]

\* sessions.forEach(session => { if (!allSessions.has(session.id)) allSessions.set(...) })
RECURSIVE MergeSessionsLastWins(_, _)
MergeSessionsLastWins(all, sessions) ==
  IF sessions = <<>> THEN all
  ELSE MergeSessionsLastWins(
         IF HasId(all, Head(sessions).id)
           THEN [all EXCEPT ![IndexOfId(all, Head(sessions).id)] = Head(sessions)]
           ELSE Append(all, Head(sessions)),
         Tail(sessions))

RECURSIVE MergeSessions(_, _)
MergeSessions(all, sessions) ==
  IF sessions = <<>> THEN all
  ELSE MergeSessions(IF HasId(all, Head(sessions).id) THEN all ELSE Append(all, Head(sessions)),
                     Tail(sessions))

\* the early-exit test after a file
EarlyExitEither(size, processedCount, fileCount, limit, offset) ==
  size >= (limit + offset) * 2 \/ processedCount >= Min(EarlyExitFiles, fileCount)

EarlyExit(size, processedCount, fileCount, limit, offset) ==
  size >= (limit + offset) * 2 /\ processedCount >= Min(EarlyExitFiles, fileCount)

\* the loop over filesWithStats
RECURSIVE ProcessFiles(_, _, _, _, _)
ProcessFiles(sorted, i, all, limit, offset) ==
  IF i > Len(sorted) THEN [all |-> all, processed |-> i - 1]
  ELSE LET merged == MergeSessions(all, ParseJsonlSessions(sorted[i]))
       IN IF EarlyExit(Len(merged), i, Len(sorted), limit, offset)
            THEN [all |-> merged, processed |-> i]
            ELSE ProcessFiles(sorted, i + 1, merged, limit, offset)

ToSession(sd) ==
  [id |-> sd.id, title |-> sd.summary, created_at |-> sd.lastActivity,
   updated_at |-> sd.lastActivity, message_count |-> sd.messageCount]

\* the sort of the converted sessions left out
SortByUpdatedAtNot(sessions) == sessions

SortByUpdatedAt(sessions) ==
  LET keyed == [i \in 1..Len(sessions) |-> [key |-> sessions[i].updated_at, val |-> sessions[i]]]
      out == SortDesc(keyed)
  IN [i \in 1..Len(out) |-> out[i].val]

\* Array.prototype.slice(from, to) with 0 <= from <= to
SliceWrong(s, from, to) == SubSeq(s, Min(from, Len(s)) + 1, Min(to - from, Len(s)))

Slice(s, from, to) == SubSeq(s, Min(from, Len(s)) + 1, Min(to, Len(s)))

EmptyResult == [sessions |-> <<>>, hasMore |-> FALSE, total |-> 0, processed |-> 0]

\* getSessions on the files readdir listed
GetSessionsOf(fs, limit, offset) ==
  IF fs = <<>> THEN EmptyResult
  ELSE LET run == ProcessFiles(NewestFirst(fs), 1, <<>>, limit, offset)
           sortedSessions ==
             SortByUpdatedAt([i \in 1..Len(run.all) |-> ToSession(run.all[i])])
       IN [sessions |-> Slice(sortedSessions, offset, offset + limit),
           hasMore |-> offset + limit < Len(sortedSessions),
           total |-> Len(sortedSessions),
           processed |-> run.processed]

\* readdir taken to succeed whatever the directory
GetSessionsIgnoresFault(name, limit, offset) == GetSessionsOf(files[name], limit, offset)

GetSessions(name, limit, offset) ==
  IF name \notin dirs \/ name \in unreadable THEN EmptyResult
    ELSE GetSessionsOf(files[name], limit, offset)

\* sessionsFor(name, limit, offset)
Sessions(name, limit, offset) ==
  /\ LET r == GetSessions(name, limit, offset)
     IN last' = [NoOp EXCEPT !.op = "sessions", !.name = name,
                             !.limit = limit, !.offset = offset,
                             !.sessions = r.sessions, !.hasMore = r.hasMore,
                             !.total = r.total, !.scanned = r.processed]
  /\ UNCHANGED <<dirs, unreadable, files, config, configBroken, cache, calls>>

---------------------------------------------------------------------------
(* Session listing over a project whose logs grow *)

MaxSessTotal == 3  \* lines the session specification lets a project hold
MaxLimit == 2      \* largest limit passed to sessionsFor
MaxOffset == 2     \* largest offset passed to sessionsFor

TotalLines(name) ==
  LET n[i \in 0..Len(files[name])] ==
        IF i = 0 THEN 0 ELSE n[i - 1] + Len(files[name][i].lines)
  IN n[Len(files[name])]

SessLines ==
  {MsgEntry("s1", 1, RA, "user", <<"a">>),
   MsgEntry("s1", 2, RA, "user", <<"b">>),
   MsgEntry("s2", 3, RB, "user", <<"c">>),
   MsgEntry("s3", 1, RA, "assistant", <<"d">>)}

InitSessions ==
  /\ dirs = {NameA}
  /\ unreadable = {}
  /\ files = [n \in {NameA} |-> <<>>]
  /\ config = NoConfig
  /\ configBroken = FALSE
  /\ cache = NoCache
  /\ last = NoOp
  /\ calls = NoCalls

NextSessions ==
  \/ WriterNewFile(NameA, MaxFiles)
  \/ \E f \in 1..Len(files[NameA]), l \in SessLines :
       TotalLines(NameA) < MaxSessTotal /\ WriterAppend(NameA, f, l)
  \/ \E limit \in 0..MaxLimit, offset \in 0..MaxOffset : Sessions(NameA, limit, offset)

SpecSessions == InitSessions /\ [][NextSessions]_vars

\* the lines of file f of the project that parse to an entry of session sid
LinesOf(name, f, sid) ==
  {i \in 1..Len(files[name][f].lines) :
     Parses(files[name][f].lines[i]) /\ files[name][f].lines[i].sessionId = sid}

FilesWith(name, sid) ==
  {f \in 1..Len(files[name]) : files[name][f].readable /\ LinesOf(name, f, sid) # {}}

\* the file with the newest modification time among those that contain sid
NewestFileWith(name, sid) ==
  CHOOSE f \in FilesWith(name, sid) :
    \A g \in FilesWith(name, sid) : files[name][g].mtime <= files[name][f].mtime

\* the record that one file alone gives for sid
RecordFrom(file, sid) ==
  LET parsed == ParseJsonlSessions(file) IN ToSession(parsed[IndexOfId(parsed, sid)])

\* C3: every session that sessionsFor returns is the record computed from the
\* newest file that contains its sessionId: its message_count is the number of
\* that file's entries of the session, and title and updated_at are that file's.
C3_FirstSeenWins ==
  last.op = "sessions" =>
    \A k \in 1..Len(last.sessions) :
      /\ FilesWith(last.name, last.sessions[k].id) # {}
      /\ last.sessions[k].message_count =
           Cardinality(LinesOf(last.name, NewestFileWith(last.name, last.sessions[k].id),
                               last.sessions[k].id))
      /\ last.sessions[k] =
           RecordFrom(files[last.name][NewestFileWith(last.name, last.sessions[k].id)],
                      last.sessions[k].id)

\* a returned session that an older file describes differently
C3_Witness ==
  /\ last.op = "sessions"
  /\ \E k \in 1..Len(last.sessions) : \E g \in FilesWith(last.name, last.sessions[k].id) :
       /\ g # NewestFileWith(last.name, last.sessions[k].id)
       /\ RecordFrom(files[last.name][g], last.sessions[k].id) # last.sessions[k]
       /\ RecordFrom(files[last.name][g], last.sessions[k].id).updated_at
            > last.sessions[k].updated_at

\* C4: the page has min(limit, total - offset) sessions when offset < total and
\* none otherwise, and hasMore says whether offset + limit < total.
C4_Pagination ==
  last.op = "sessions" =>
    /\ Len(last.sessions) =
         IF last.offset < last.total THEN Min(last.limit, last.total - last.offset) ELSE 0
    /\ last.hasMore = (last.offset + last.limit < last.total)

\* a middle page: something before it, something after it
C4_Witness ==
  /\ last.op = "sessions"
  /\ last.offset > 0 /\ last.limit > 0
  /\ last.offset + last.limit < last.total
  /\ Len(last.sessions) = last.limit
  /\ last.hasMore

---------------------------------------------------------------------------
(* ConfigStore *)

NoEntry == [displayName |-> NoStr, manuallyAdded |-> FALSE, originalPath |-> NoStr]

ConfigHas(cfg, name) == \E i \in 1..Len(cfg) : cfg[i].name = name

ConfigIndex(cfg, name) == CHOOSE i \in 1..Len(cfg) : cfg[i].name = name

\* config[name], the absent fields of an absent entry being undefined
ConfigGet(cfg, name) ==
  IF ConfigHas(cfg, name) THEN cfg[ConfigIndex(cfg, name)].entry ELSE NoEntry

\* config[name] = entry: an object keeps its keys in insertion order
ConfigSet(cfg, name, entry) ==
  IF ConfigHas(cfg, name)
    THEN [cfg EXCEPT ![ConfigIndex(cfg, name)].entry = entry]
    ELSE Append(cfg, [name |-> name, entry |-> entry])

\* delete config[name]
ConfigDelete(cfg, name) ==
  LET Other(e) == e.name # name IN SelectSeq(cfg, Other)

\* every load taken for a failed one
LoadNothing == NoConfig

\* loadProjectConfig: an unreadable document is the empty config
LoadProjectConfig == IF configBroken THEN NoConfig ELSE config

---------------------------------------------------------------------------
(* ProjectCatalog *)

PreviewLimit == 5

\* the projects whose package.json declares a name
PackageNameAt(path) == IF path = PB THEN <<"p", "k", "g">> ELSE NoStr

\* the paths fs.access finds
ExistingPaths == {PA, PB, PLong, PDash}

\* the order in which readdir lists the project directories
AllNames == <<NameA, NameB>>

ProjectNames == {AllNames[i] : i \in 1..Len(AllNames)}

\* projectPath.split('/').filter(Boolean)
RECURSIVE SplitPath(_, _, _)
SplitPath(s, cur, out) ==
  IF s = <<>> THEN (IF cur = <<>> THEN out ELSE Append(out, cur))
  ELSE IF Head(s) = "/"
    THEN SplitPath(Tail(s), <<>>, IF cur = <<>> THEN out ELSE Append(out, cur))
    ELSE SplitPath(Tail(s), Append(cur, Head(s)), out)

GenerateDisplayName(projectName, actualProjectDir) ==
  LET projectPath == IF actualProjectDir # NoStr THEN actualProjectDir ELSE Decode(projectName)
      parts == SplitPath(projectPath, <<>>, <<>>)
  IN IF PackageNameAt(projectPath) # NoStr THEN PackageNameAt(projectPath)
     ELSE IF StartsWith(projectPath, <<"/">>) /\ Len(parts) > 3
       THEN <<".", ".", ".", "/">> \o parts[Len(parts) - 1] \o <<"/">> \o parts[Len(parts)]
     ELSE projectPath

\* the preview fetched but sessionMeta left as initialised
ProjectStaleMeta(name, displayName, fullPath, sr) ==
  [name |-> name, displayName |-> displayName, fullPath |-> fullPath,
   total |-> 0, hasMore |-> FALSE, sessions |-> sr.sessions]

Project(name, displayName, fullPath, sr) ==
  [name |-> name, displayName |-> displayName, fullPath |-> fullPath,
   total |-> sr.total, hasMore |-> sr.hasMore, sessions |-> sr.sessions]

\* the first loop of getProjects: the directories, in readdir order
RECURSIVE ListDirs(_, _, _, _)
ListDirs(i, cfg, c, out) ==
  IF i > Len(AllNames) THEN [projects |-> out, cache |-> c]
  ELSE IF AllNames[i] \notin dirs THEN ListDirs(i + 1, cfg, c, out)
  ELSE LET name == AllNames[i]
           r == ExtractProjectDirectory(name, c)
           customName == ConfigGet(cfg, name).displayName
           autoDisplayName == GenerateDisplayName(name, r.path)
       IN ListDirs(i + 1, cfg, r.cache,
                   Append(out, Project(name,
                                       IF customName # NoStr THEN customName
                                       ELSE autoDisplayName,
                                       r.path, GetSessions(name, PreviewLimit, 0))))

\* which config entries the second loop of getProjects turns into projects
ListedManuallyWrong(e) == e.entry.manuallyAdded

ListedManually(e) == e.name \notin dirs /\ e.entry.manuallyAdded

\* the second loop of getProjects: the manually added projects, in key order
RECURSIVE ListManual(_, _, _, _)
ListManual(i, cfg, c, out) ==
  IF i > Len(cfg) THEN [projects |-> out, cache |-> c]
  ELSE IF ~ListedManually(cfg[i]) THEN ListManual(i + 1, cfg, c, out)
  ELSE LET name == cfg[i].name
           r == IF cfg[i].entry.originalPath # NoStr
                  THEN [path |-> cfg[i].entry.originalPath, cache |-> c]
                  ELSE ExtractProjectDirectory(name, c)
       IN ListManual(i + 1, cfg, r.cache,
                     Append(out, Project(name,
                                         IF cfg[i].entry.displayName # NoStr
                                           THEN cfg[i].entry.displayName
                                           ELSE GenerateDisplayName(name, r.path),
                                         r.path, EmptyResult)))

\* getProjects once the document has been loaded
GetProjectsWith(cfg, c) ==
  LET onDisk == ListDirs(1, cfg, c, <<>>)
  IN ListManual(1, cfg, onDisk.cache, onDisk.projects)

GetProjects(c) == GetProjectsWith(LoadProjectConfig, c)

\* list()
List ==
  /\ LET r == GetProjects(cache)
     IN /\ cache' = r.cache
        /\ last' = [NoOp EXCEPT !.op = "list", !.projects = r.projects]
  /\ UNCHANGED <<dirs, unreadable, files, config, configBroken, calls>>

\* the document renameProject saves, cfg being the document it loaded
RenameIn(cfg, projectName, newDisplayName) ==
  IF newDisplayName = NoStr \/ Trim(newDisplayName) = NoStr
    THEN ConfigDelete(cfg, projectName)
    ELSE ConfigSet(cfg, projectName,
                   [ConfigGet(cfg, projectName) EXCEPT !.displayName = Trim(newDisplayName)])

RenameProject(projectName, newDisplayName) ==
  RenameIn(LoadProjectConfig, projectName, newDisplayName)

\* rename(name, newDisplayName)
Rename(name, newDisplayName) ==
  /\ config' = RenameProject(name, newDisplayName)
  /\ last' = [NoOp EXCEPT !.op = "rename", !.name = name, !.arg = newDisplayName]
  /\ UNCHANGED <<dirs, unreadable, files, configBroken, cache, calls>>

\* data.sessionId === sessionId on a line that parses
MatchesSession(l, sessionId) == Parses(l) /\ l.sessionId = sessionId

\* content.split('\n').filter(line => line.trim())
NonBlank(lines) == LET Keep(l) == l.kind # "blank" IN SelectSeq(lines, Keep)

\* lines.some(...)
HasSession(file, sessionId) ==
  \E i \in 1..Len(file.lines) : MatchesSession(file.lines[i], sessionId)

\* lines.filter(...): the lines of the session out, malformed lines kept
FilterLinesDropsBad(lines, sessionId) ==
  LET Keep(l) == Parses(l) /\ l.sessionId # sessionId IN SelectSeq(NonBlank(lines), Keep)

FilterLines(lines, sessionId) ==
  LET Keep(l) == ~MatchesSession(l, sessionId) IN SelectSeq(NonBlank(lines), Keep)

\* the index of the file the loop of deleteSession stops at: the first one that
\* cannot be read or that holds the session; 0 when it runs to the end
StopsAt(fs, sessionId) ==
  LET hits == {i \in 1..Len(fs) : ~fs[i].readable \/ HasSession(fs[i], sessionId)}
  IN IF hits = {} THEN 0 ELSE SetMin(hits)

\* deleteSession: whether it returned true, the files it leaves, and the index
\* of the file it wrote
DeleteSession(name, sessionId) ==
  IF name \notin dirs \/ name \in unreadable
    THEN [ok |-> FALSE, files |-> files[name], file |-> 0]
  ELSE IF files[name] = <<>> THEN [ok |-> FALSE, files |-> files[name], file |-> 0]
  ELSE LET i == StopsAt(files[name], sessionId)
       IN IF i = 0 \/ ~files[name][i].readable
            THEN [ok |-> FALSE, files |-> files[name], file |-> 0]
            ELSE [ok |-> TRUE, file |-> i,
                  files |-> Touch([files[name] EXCEPT ![i].lines = FilterLines(@, sessionId)], i)]

\* deleteSession(name, sessionId)
DeleteSessionOp(name, sessionId) ==
  /\ LET r == DeleteSession(name, sessionId)
     IN /\ files' = [files EXCEPT ![name] = r.files]
        /\ last' = [NoOp EXCEPT !.op = "deleteSession", !.name = name, !.ok = r.ok,
                                !.sid = sessionId, !.file = r.file]
  /\ UNCHANGED <<dirs, unreadable, config, configBroken, cache, calls>>

IsProjectEmpty(name) == GetSessions(name, 1, 0).total = 0

\* fs.rm(projectDir, {recursive, force}): fails on a directory that has entries
\* and cannot be listed
RmFails(name) == name \in dirs /\ name \in unreadable /\ files[name] # <<>>

\* deleteEmpty(name): deleteProject
DeleteEmpty(name) ==
  IF ~IsProjectEmpty(name) \/ RmFails(name)
    THEN /\ last' = [NoOp EXCEPT !.op = "deleteEmpty", !.name = name, !.ok = FALSE]
         /\ UNCHANGED <<dirs, unreadable, files, config, configBroken, cache, calls>>
    ELSE /\ dirs' = dirs \ {name}
         /\ unreadable' = unreadable \ {name}
         /\ files' = [files EXCEPT ![name] = <<>>]
         /\ config' = ConfigDelete(LoadProjectConfig, name)
         /\ last' = [NoOp EXCEPT !.op = "deleteEmpty", !.name = name, !.ok = TRUE]
         /\ UNCHANGED <<configBroken, cache, calls>>

\* may addProjectManually register the identifier?
AlreadyKnownWrong(cfg, projectName) == projectName \in dirs

AlreadyKnown(cfg, projectName) == projectName \in dirs \/ ConfigHas(cfg, projectName)

\* the throws of addProjectManually: the path is not there, or the identifier
\* is taken
AddRefused(cfg, projectPath) ==
  \/ PathResolve(projectPath) \notin ExistingPaths
  \/ AlreadyKnown(cfg, Encode(PathResolve(projectPath)))

\* addProjectManually: whether it returned, and the document it leaves
AddProjectManually(projectPath, displayName) ==
  LET absolutePath == PathResolve(projectPath)
      projectName == Encode(absolutePath)
  IN IF AddRefused(LoadProjectConfig, projectPath)
       THEN [ok |-> FALSE, name |-> projectName, config |-> config]
       ELSE [ok |-> TRUE, name |-> projectName,
             config |-> ConfigSet(LoadProjectConfig, projectName,
                                  [manuallyAdded |-> TRUE, originalPath |-> absolutePath,
                                   displayName |-> displayName])]

\* addManually(path, displayName)
AddManually(projectPath, displayName) ==
  /\ LET r == AddProjectManually(projectPath, displayName)
     IN /\ config' = r.config
        /\ last' = [NoOp EXCEPT !.op = "addManually", !.name = r.name, !.ok = r.ok,
                                !.path = projectPath, !.arg = displayName]
  /\ UNCHANGED <<dirs, unreadable, files, configBroken, cache, calls>>

\* the CLI creates the directory of a project
MkProject(name) ==
  /\ name \notin dirs
  /\ dirs' = dirs \cup {name}
  /\ files' = [files EXCEPT ![name] = <<>>]
  /\ last' = [NoOp EXCEPT !.op = "write", !.name = name]
  /\ UNCHANGED <<unreadable, config, configBroken, cache, calls>>

---------------------------------------------------------------------------
(* The catalog *)

MaxCatFiles == 1   \* log files per project in the catalog specification
MaxCatLines == 1   \* lines per log file in the catalog specification

CatLines == {MsgEntry("s1", 1, PLong, "user", <<"h", "i">>)}

RenameInputs == {NoStr, <<" ">>, <<"X">>, <<" ", "X">>}

AddPaths == {PA, PSlash, PB, PGone}

AddNames == {NoStr, <<"X">>}

Init ==
  /\ dirs = {}
  /\ unreadable = {}
  /\ files = [n \in ProjectNames |-> <<>>]
  /\ config = NoConfig
  /\ configBroken = FALSE
  /\ cache = NoCache
  /\ last = NoOp
  /\ calls = NoCalls

Next ==
  \/ List
  \/ \E n \in ProjectNames, x \in RenameInputs : Rename(n, x)
  \/ \E p \in AddPaths, x \in AddNames : AddManually(p, x)
  \/ \E n \in ProjectNames : DeleteEmpty(n)
  \/ \E n \in ProjectNames : DeleteSessionOp(n, "s1")
  \/ \E n \in ProjectNames : MkProject(n)
  \/ WriterNewFile(NameA, MaxCatFiles)
  \/ \E f \in 1..Len(files[NameA]), l \in CatLines :
       Len(files[NameA][f].lines) < MaxCatLines /\ WriterAppend(NameA, f, l)
  \/ DirFault(NameA)
  \/ \E f \in 1..Len(files[NameA]) : FileFault(NameA, f)

Spec == Init /\ [][Next]_vars

---------------------------------------------------------------------------
(* Claims about the catalog *)

\* what list() would return now
ListNow == GetProjects(cache).projects

\* what list() returns once the persisted document is cfg, the directories, the
\* log files and the cache being what they are
ListGiven(cfg) == GetProjectsWith(cfg, cache).projects

Listed(projects, name) == \E i \in 1..Len(projects) : projects[i].name = name

ShownAs(projects, name) ==
  projects[CHOOSE i \in 1..Len(projects) : projects[i].name = name]

ConfigNames(cfg) == {cfg[i].name : i \in 1..Len(cfg)}

\* the configured names flagged manuallyAdded that have no directory
ManualOnly == {n \in ConfigNames(config) : ConfigGet(config, n).manuallyAdded /\ n \notin dirs}

\* C5: list() returns one project for each project directory and one for each
\* manually added config entry without a directory, and no name twice.
C5_ListExactlyOnce ==
  last.op = "list" =>
    /\ \A i, j \in 1..Len(last.projects) :
         last.projects[i].name = last.projects[j].name => i = j
    /\ {last.projects[i].name : i \in 1..Len(last.projects)} = dirs \cup ManualOnly

\* a listing with a manually added project that has a directory by now, and
\* another one that has none
C5_Witness ==
  /\ last.op = "list"
  /\ \E n \in dirs : ConfigGet(config, n).manuallyAdded
  /\ ManualOnly # {}
  /\ Len(last.projects) = 2

\* a display name as it is stored: non-empty and without surrounding blanks
IsDisplayName(x) == x # NoStr /\ Trim(x) = x

\* C6: for a listed project p, rename(p, X) makes list() show displayName X, and a
\* following rename(p, "") leaves p listed, with its derived display name.
C6_RenameRoundTrip ==
  [][/\ (/\ last'.op = "rename"
         /\ IsDisplayName(last'.arg)
         /\ Listed(ListNow, last'.name)) =>
          /\ Listed(ListGiven(config'), last'.name)
          /\ ShownAs(ListGiven(config'), last'.name).displayName = last'.arg
     /\ (/\ last.op = "rename" /\ IsDisplayName(last.arg)
         /\ last'.op = "rename" /\ last'.name = last.name /\ last'.arg = NoStr
         /\ Listed(ListNow, last.name)) =>
          /\ Listed(ListGiven(config'), last.name)
          /\ ShownAs(ListGiven(config'), last.name).displayName =
               GenerateDisplayName(last.name, ShownAs(ListGiven(config'), last.name).fullPath)]_vars

\* some log file of the project holds an entry that bears a sessionId
BearsSession(name) ==
  /\ name \in dirs
  /\ \E f \in 1..Len(files[name]) : \E i \in 1..Len(files[name][f].lines) :
       Parses(files[name][f].lines[i]) /\ files[name][f].lines[i].sessionId # ""

\* C9: deleteEmpty of a project one of whose log files holds an entry bearing a
\* sessionId fails and removes nothing, also when a file or the directory
\* cannot be read.
C9_OnlyWhenEmpty ==
  [][(last'.op = "deleteEmpty" /\ BearsSession(last'.name)) =>
       /\ ~last'.ok
       /\ dirs' = dirs /\ files' = files /\ config' = config]_vars

\* C10 as stated: addManually fails and leaves the document alone when the
\* identifier has a directory or a config entry, and otherwise persists
\* {manuallyAdded, originalPath = path, displayName}, after which list() shows the
\* project and a second addManually of the path fails.
C10_AsStated ==
  [][last'.op = "addManually" =>
       IF last'.name \in dirs \/ ConfigHas(config, last'.name)
         THEN ~last'.ok /\ config' = config
         ELSE /\ last'.ok
              /\ ConfigHas(config', last'.name)
              /\ ConfigGet(config', last'.name) =
                   [manuallyAdded |-> TRUE, originalPath |-> last'.path,
                    displayName |-> last'.arg]
              /\ Listed(ListGiven(config'), last'.name)
              /\ AddRefused(config', last'.path)]_vars

\* C10 amended: it also fails, the document left alone, when the path does not
\* exist; and originalPath is the resolved absolute path.
C10_AddManually ==
  [][last'.op = "addManually" =>
       IF \/ last'.name \in dirs
          \/ ConfigHas(config, last'.name)
          \/ PathResolve(last'.path) \notin ExistingPaths
         THEN ~last'.ok /\ config' = config
         ELSE /\ last'.ok
              /\ last'.name = Encode(PathResolve(last'.path))
              /\ ConfigHas(config', last'.name)
              /\ ConfigGet(config', last'.name) =
                   [manuallyAdded |-> TRUE, originalPath |-> PathResolve(last'.path),
                    displayName |-> last'.arg]
              /\ Listed(ListGiven(config'), last'.name)
              /\ AddRefused(config', last'.path)]_vars

\* an addManually that went through, with a display name
C10_Witness ==
  /\ last.op = "addManually" /\ last.ok
  /\ last.arg # NoStr
  /\ ConfigGet(config, last.name).manuallyAdded
  /\ ConfigGet(config, last.name).displayName = last.arg
  /\ Listed(ListNow, last.name)

---------------------------------------------------------------------------
(* Deleting a session *)

MaxDelTotal == 3   \* lines the deletion specification lets a project hold

DelLines ==
  {MsgEntry("s1", 1, RA, "user", <<"a">>),
   MsgEntry("s2", 2, RA, "user", <<"b">>),
   BadLine,
   BlankLine}

DelIds == {"s1", "s2"}

InitDelete ==
  /\ dirs = {NameA}
  /\ unreadable = {}
  /\ files = [n \in {NameA} |-> <<>>]
  /\ config = NoConfig
  /\ configBroken = FALSE
  /\ cache = NoCache
  /\ last = NoOp
  /\ calls = NoCalls

NextDelete ==
  \/ WriterNewFile(NameA, MaxFiles)
  \/ \E f \in 1..Len(files[NameA]), l \in DelLines :
       TotalLines(NameA) < MaxDelTotal /\ WriterAppend(NameA, f, l)
  \/ DirFault(NameA)
  \/ \E f \in 1..Len(files[NameA]) : FileFault(NameA, f)
  \/ \E sid \in DelIds : DeleteSessionOp(NameA, sid)

SpecDelete == InitDelete /\ [][NextDelete]_vars

\* the positions in a file's lines of the entries of session sid
SessionLines(lines, sid) ==
  {i \in 1..Len(lines) : lines[i].kind = "json" /\ lines[i].sessionId = sid}

\* the positions of the empty and the whitespace-only lines
BlankLines(lines) == {i \in 1..Len(lines) : lines[i].kind = "blank"}

\* the log files, by index, that hold an entry of session sid
Holding(fs, sid) == {f \in 1..Len(fs) : SessionLines(fs[f].lines, sid) # {}}

\* lines with the positions in drop left out, the rest in order
Without(lines, drop) ==
  LET w[i \in 0..Len(lines)] ==
        IF i = 0 THEN <<>>
        ELSE IF i \in drop THEN w[i - 1] ELSE Append(w[i - 1], lines[i])
  IN w[Len(lines)]

\* a deleteSession that returned, of a session exactly one file held
DeletedFromOne ==
  /\ last'.op = "deleteSession" /\ last'.ok
  /\ Cardinality(Holding(files[last'.name], last'.sid)) = 1

Readable(name) ==
  /\ name \notin unreadable
  /\ \A f \in 1..Len(files[name]) : files[name][f].readable

\* C8: with the directory and the files readable, deleteSession(name, s) fails
\* exactly when no log file held an entry of s, and then writes nothing; when
\* it succeeds no log file holds an entry of s any more.
C8_DeletesEverywhere ==
  [][(last'.op = "deleteSession" /\ Readable(last'.name)) =>
       /\ last'.ok <=> Holding(files[last'.name], last'.sid) # {}
       /\ last'.ok => Holding(files'[last'.name], last'.sid) = {}
       /\ ~last'.ok => files' = files]_vars

---------------------------------------------------------------------------
(* The two-file scenario *)

MyApp == <<"m", "y", "-", "a", "p", "p">>
HomeApp == <<"/", "h", "o", "m", "e", "/", "u", "/", "a", "p", "p">>
HomeAppOld == HomeApp \o <<"-", "o", "l", "d">>
FixTheBug == <<"F", "i", "x", " ", "t", "h", "e", " ", "b", "u", "g">>

\* an entry that carries a sessionId and a cwd and nothing else
BareEntry(sid, cwd) == Line("json", sid, "", 0, cwd, NoStr, "", NoStr, TRUE)

FileALines == <<MsgEntry("s1", 0, HomeApp, "user", FixTheBug)>>
FileBLines == <<BareEntry("s1", HomeAppOld), BareEntry("s2", HomeApp)>>

ScenarioLines == {FileALines[1], FileBLines[1], FileBLines[2]}

MaxScenTotal == 3  \* lines the scenario specification lets the project hold

InitScenario ==
  /\ dirs = {MyApp}
  /\ unreadable = {}
  /\ files = [n \in {MyApp} |-> <<>>]
  /\ config = NoConfig
  /\ configBroken = FALSE
  /\ cache = NoCache
  /\ last = NoOp
  /\ calls = NoCalls

NextScenario ==
  \/ WriterNewFile(MyApp, MaxFiles)
  \/ \E f \in 1..Len(files[MyApp]), l \in ScenarioLines :
       TotalLines(MyApp) < MaxScenTotal /\ WriterAppend(MyApp, f, l)
  \/ Resolve(MyApp)
  \/ Invalidate
  \/ Sessions(MyApp, 10, 0)

SpecScenario == InitScenario /\ [][NextScenario]_vars

\* the project holds file A, the newer, and file B, in either readdir order
InScenario ==
  /\ Len(files[MyApp]) = 2
  /\ \E a, b \in 1..2 :
       /\ a # b
       /\ files[MyApp][a].lines = FileALines
       /\ files[MyApp][b].lines = FileBLines
       /\ files[MyApp][a].mtime > files[MyApp][b].mtime

\* C11: in the two-file scenario a resolve that scans returns /home/u/app in
\* either order of the files, and sessionsFor(my-app, 10, 0) returns the two
\* sessions s1 and s2, total 2, s1 titled "Fix the bug".
C11_Scenario ==
  InScenario =>
    /\ (last.op = "resolve" /\ last.miss) => last.path = HomeApp
    /\ last.op = "sessions" =>
         /\ last.total = 2
         /\ {last.sessions[i].id : i \in 1..Len(last.sessions)} = {"s1", "s2"}
         /\ Len(last.sessions) = 2
         /\ \A i \in 1..2 : last.sessions[i].id = "s1" => last.sessions[i].title = FixTheBug

\* sessionsFor has run on the scenario with file B listed first by readdir
C11_Witness ==
  /\ InScenario
  /\ files[MyApp][1].lines = FileBLines
  /\ last.op = "sessions"
  /\ last.total = 2

---------------------------------------------------------------------------
(* The read paths under malformed lines and read failures *)

MaxReadTotal == 3  \* lines the read-path specification lets the project hold

ReadLines ==
  {MsgEntry("s1", 1, RA, "user", <<"a">>),
   MsgEntry("s2", 2, RB, "user", <<"b">>),
   BadLine}

InitRead ==
  /\ dirs = {}
  /\ unreadable = {}
  /\ files = [n \in {NameA} |-> <<>>]
  /\ config = NoConfig
  /\ configBroken = FALSE
  /\ cache = NoCache
  /\ last = NoOp
  /\ calls = NoCalls

NextRead ==
  \/ MkProject(NameA)
  \/ WriterNewFile(NameA, MaxFiles)
  \/ \E f \in 1..Len(files[NameA]), l \in ReadLines :
       TotalLines(NameA) < MaxReadTotal /\ WriterAppend(NameA, f, l)
  \/ DirFault(NameA)
  \/ \E f \in 1..Len(files[NameA]) : FileFault(NameA, f)
  \/ Resolve(NameA)
  \/ \E limit \in 1..MaxLimit : Sessions(NameA, limit, 0)

SpecRead == InitRead /\ [][NextRead]_vars

\* C12: sessionsFor on a project whose directory is missing or cannot be read
\* returns no session, total 0 and hasMore false, and leaves the log files, the
\* config document and the resolver cache as they were.
C12_EmptyOnUnreadable ==
  [][(/\ last'.op = "sessions"
      /\ (last'.name \notin dirs \/ last'.name \in unreadable)) =>
       /\ last'.sessions = <<>>
       /\ last'.total = 0
       /\ ~last'.hasMore
       /\ files' = files /\ config' = config /\ cache' = cache
       /\ dirs' = dirs /\ unreadable' = unreadable]_vars

\* sessionsFor came back empty from a directory that cannot be listed while a
\* readable log file in it holds a session, the resolver cache being filled
C12_Witness ==
  /\ last.op = "sessions" /\ last.limit > 0
  /\ last.name \in unreadable
  /\ FilesWith(last.name, "s1") # {}
  /\ last.name \in DOMAIN cache
  /\ last.total = 0 /\ last.sessions = <<>>

\* the log files with their malformed lines taken out
WithoutMalformed(fs) ==
  LET Keep(l) == l.kind # "bad"
  IN [i \in 1..Len(fs) |-> [fs[i] EXCEPT !.lines = SelectSeq(@, Keep)]]

\* the directory of the project is there and can be listed
Listable(name) == name \in dirs /\ name \notin unreadable

\* C13: what a scanning resolve and what sessionsFor return is what they return
\* on the same log files without their malformed lines.
C13_MalformedInvisible ==
  /\ (last.op = "resolve" /\ last.miss /\ Listable(last.name)) =>
       last.path = ScanListed(last.name, WithoutMalformed(files[last.name])).path
  /\ (last.op = "sessions" /\ Listable(last.name)) =>
       LET r == GetSessionsOf(WithoutMalformed(files[last.name]), last.limit, last.offset)
       IN /\ last.sessions = r.sessions
          /\ last.total = r.total
          /\ last.hasMore = r.hasMore

\* sessionsFor has read a file with a malformed line between two entries
C13_Witness ==
  /\ last.op = "sessions" /\ Listable(last.name)
  /\ last.total = 2
  /\ \E f \in 1..Len(files[last.name]) :
       /\ files[last.name][f].readable
       /\ Len(files[last.name][f].lines) = 3
       /\ files[last.name][f].lines[1].kind = "json"
       /\ files[last.name][f].lines[2].kind = "bad"
       /\ files[last.name][f].lines[3].kind = "json"

---------------------------------------------------------------------------
(* The write paths when the config document cannot be read or written *)

\* reading project-config.json starts or stops failing
ConfigFault ==
  /\ configBroken' = ~configBroken
  /\ last' = [NoOp EXCEPT !.op = "fault"]
  /\ UNCHANGED <<dirs, unreadable, files, config, cache, calls>>

\* deleteProject, saveProjectConfig succeeding or throwing: the directory is
\* removed before the document is written
DeleteProject(name, writable) ==
  IF ~IsProjectEmpty(name) \/ RmFails(name)
    THEN /\ last' = [NoOp EXCEPT !.op = "deleteEmpty", !.name = name, !.ok = FALSE]
         /\ UNCHANGED <<dirs, unreadable, files, config, configBroken, cache, calls>>
    ELSE /\ dirs' = dirs \ {name}
         /\ unreadable' = unreadable \ {name}
         /\ files' = [files EXCEPT ![name] = <<>>]
         /\ config' = IF writable THEN ConfigDelete(LoadProjectConfig, name) ELSE config
         /\ last' = [NoOp EXCEPT !.op = "deleteEmpty", !.name = name, !.ok = writable]
         /\ UNCHANGED <<configBroken, cache, calls>>

InitFaults ==
  /\ dirs = {}
  /\ unreadable = {}
  /\ files = [n \in ProjectNames |-> <<>>]
  /\ config = NoConfig
  /\ configBroken = FALSE
  /\ cache = NoCache
  /\ last = NoOp
  /\ calls = NoCalls

NextFaults ==
  \/ \E n \in ProjectNames : MkProject(n)
  \/ \E n \in ProjectNames, x \in RenameInputs : Rename(n, x)
  \/ \E p \in AddPaths, x \in AddNames : AddManually(p, x)
  \/ \E n \in ProjectNames, writable \in BOOLEAN : DeleteProject(n, writable)
  \/ ConfigFault

SpecFaults == InitFaults /\ [][NextFaults]_vars

\* the project is known: it has a directory or a config entry
Known(name) == name \in dirs \/ ConfigHas(config, name)

\* C14: rename and deleteEmpty of a name with neither a directory nor a config
\* entry fail and leave the config document as it was.
C14_NotFoundSurfaced ==
  [][(last'.op \in {"rename", "deleteEmpty"} /\ ~Known(last'.name)) =>
       ~last'.ok /\ config' = config]_vars

\* C15: rename, addManually and deleteEmpty run while the config document cannot
\* be read report an error and leave the persisted document as it was.
C15_UnreadableConfigSurfaced ==
  [][(last'.op \in {"rename", "addManually", "deleteEmpty"} /\ configBroken) =>
       ~last'.ok /\ config' = config]_vars

\* C16: a deleteEmpty that reports an error leaves the project directory and
\* the project's config entry as they were.
C16_NoPartialFailure ==
  [][(last'.op = "deleteEmpty" /\ ~last'.ok) =>
       /\ (last'.name \in dirs') = (last'.name \in dirs)
       /\ files'[last'.name] = files[last'.name]
       /\ ConfigHas(config', last'.name) = ConfigHas(config, last'.name)
       /\ ConfigGet(config', last'.name) = ConfigGet(config, last'.name)]_vars

---------------------------------------------------------------------------
(* parseJsonlSessions on one log file *)

MaxParseLines == 3 \* lines the parsing specification lets the file hold

Hi == <<"h", "i">>
Fifty == Repeat(<<"x">>, SummaryBudget)

ParseTemplates ==
  {MsgEntry("s1", 2, RA, "assistant", <<"o", "k">>),
   MsgEntry("s1", 1, RA, "user", Hi),
   MsgEntry("s1", 0, RA, "user", Placeholder),
   MsgEntry("s1", 0, RA, "user", Fifty),
   MsgEntry("s1", 0, RA, "user", Fifty \o <<"y">>),
   MsgEntry("s1", 0, RA, "user", CommandPrefix \o Hi),
   MsgEntry("s1", 0, RA, "user", NoStr),
   Line("json", "s1", "user", 0, RA, NoStr, "user", NoStr, FALSE),
   SummaryEntry("s1", <<"t">>),
   SummaryEntry("s1", Placeholder)}

InitParse ==
  /\ dirs = {NameA}
  /\ unreadable = {}
  /\ files = [n \in {NameA} |-> <<File(<<>>, 1, TRUE)>>]
  /\ config = NoConfig
  /\ configBroken = FALSE
  /\ cache = NoCache
  /\ last = NoOp
  /\ calls = NoCalls

NextParse ==
  \/ \E l \in ParseTemplates :
       Len(files[NameA][1].lines) < MaxParseLines /\ WriterAppend(NameA, 1, l)
  \/ \E limit \in 1..MaxLimit : Sessions(NameA, limit, 0)

SpecParse == InitParse /\ [][NextParse]_vars

\* the entries of session sid in the one log file, in file order
EntriesOf(sid) ==
  LET Mine(l) == l.kind = "json" /\ l.sessionId = sid
  IN SelectSeq(files[NameA][1].lines, Mine)

\* C17: the lastActivity of a returned session is the greatest timestamp among
\* the entries of the session that carry one, in whatever order they stand.
C17_LastActivityIsMax ==
  last.op = "sessions" =>
    \A i \in 1..Len(last.sessions) :
      LET es == EntriesOf(last.sessions[i].id)
          ts == {es[k].timestamp : k \in 1..Len(es)} \ {0}
      IN ts # {} => last.sessions[i].updated_at = SetMax(ts)

\* the summary markers among the entries: type summary with a non-empty text
Markers(es) == {k \in 1..Len(es) : es[k].type = "summary" /\ es[k].summary # NoStr}

\* C18: the title of a returned session with a summary marker is the text of its
\* last marker, whatever the text and whatever messages stand around it.
C18_MarkersAuthoritative ==
  last.op = "sessions" =>
    \A i \in 1..Len(last.sessions) :
      LET es == EntriesOf(last.sessions[i].id)
      IN Markers(es) # {} => last.sessions[i].title = es[SetMax(Markers(es))].summary

\* the user entries a summary may be derived from
Sources(es) ==
  {k \in 1..Len(es) :
     /\ es[k].role = "user" /\ es[k].plain /\ es[k].content # NoStr
     /\ ~(/\ Len(es[k].content) >= Len(CommandPrefix)
          /\ SubSeq(es[k].content, 1, Len(CommandPrefix)) = CommandPrefix)}

\* C19: the title of a returned session without a marker is the placeholder
\* when no user entry can be a source, and else the content of the first
\* source, cut to 50 characters plus "..." when it is longer.
C19_FirstUserMessage ==
  last.op = "sessions" =>
    \A i \in 1..Len(last.sessions) :
      LET es == EntriesOf(last.sessions[i].id)
          first == es[SetMin(Sources(es))].content
      IN Markers(es) = {} =>
           last.sessions[i].title =
             IF Sources(es) = {} THEN Placeholder
             ELSE IF Len(first) <= 50 THEN first
             ELSE SubSeq(first, 1, 50) \o <<".", ".", ".">>

---------------------------------------------------------------------------
(* The early exit of getSessions *)

MaxExitFiles == 4  \* log files in the early-exit specification
MaxExitLines == 1  \* lines per log file in the early-exit specification

ExitLines ==
  {MsgEntry("s1", 1, RA, "user", <<"a">>),
   MsgEntry("s2", 2, RA, "user", <<"b">>)}

InitEarlyExit ==
  /\ dirs = {NameA}
  /\ unreadable = {}
  /\ files = [n \in {NameA} |-> <<>>]
  /\ config = NoConfig
  /\ configBroken = FALSE
  /\ cache = NoCache
  /\ last = NoOp
  /\ calls = NoCalls

NextEarlyExit ==
  \/ WriterNewFile(NameA, MaxExitFiles)
  \/ \E f \in 1..Len(files[NameA]), l \in ExitLines :
       Len(files[NameA][f].lines) < MaxExitLines /\ WriterAppend(NameA, f, l)
  \/ \E limit \in 0..MaxLimit, offset \in 0..1 : Sessions(NameA, limit, offset)

SpecEarlyExit == InitEarlyExit /\ [][NextEarlyExit]_vars

\* the k newest log files of the project
Newest(name, k) ==
  {f \in 1..Len(files[name]) : files[name][f].mtime > Len(files[name]) - k}

\* the distinct sessions the k newest files hold
DistinctIn(name, k) ==
  UNION {{files[name][f].lines[i].sessionId : i \in 1..Len(files[name][f].lines)} :
           f \in Newest(name, k)} \ {""}

\* the test that stops the loop after k of n files
StopsAfter(name, k, limit, offset) ==
  /\ Cardinality(DistinctIn(name, k)) >= 2 * (limit + offset)
  /\ k >= (IF Len(files[name]) < 3 THEN Len(files[name]) ELSE 3)

\* C20: sessionsFor stops after the first file, newest first, at which it holds
\* 2 * (limit + offset) distinct sessions and has processed min(3, fileCount)
\* files, and runs to the last file when there is none.
C20_EarlyExit ==
  (last.op = "sessions" /\ files[last.name] # <<>>) =>
    LET n == Len(files[last.name])
        p == last.scanned
    IN /\ p \in 1..n
       /\ \A k \in 1..(p - 1) : ~StopsAfter(last.name, k, last.limit, last.offset)
       /\ p < n => StopsAfter(last.name, p, last.limit, last.offset)
       /\ p >= (IF n < 3 THEN n ELSE 3)
       /\ p < n => Cardinality(DistinctIn(last.name, p)) >= 2 * (last.limit + last.offset)

\* sessionsFor left the oldest of four files unprocessed, holding two sessions
C20_Witness ==
  /\ last.op = "sessions"
  /\ Len(files[last.name]) = 4
  /\ last.scanned = 3
  /\ last.limit + last.offset = 1
  /\ last.total = 2

---------------------------------------------------------------------------
(* Further claims about the session listing *)

\* C21: a result of sessionsFor lists its sessions by non-increasing
\* lastActivity and holds no session id twice.
C21_SortedAndDistinct ==
  last.op = "sessions" =>
    \A i, j \in 1..Len(last.sessions) :
      i < j => /\ last.sessions[i].updated_at >= last.sessions[j].updated_at
               /\ last.sessions[i].id # last.sessions[j].id

\* two sessions came back, the less recent one last, while one of them has
\* entries in both log files
C21_Witness ==
  /\ last.op = "sessions"
  /\ Len(last.sessions) = 2
  /\ last.sessions[1].updated_at > last.sessions[2].updated_at
  /\ Cardinality(FilesWith(last.name, "s1")) = 2

---------------------------------------------------------------------------
(* The session preview of list() *)

MaxPreviewTotal == 6 \* lines the preview specification lets the project hold

SessionIds == <<"s1", "s2", "s3", "s4", "s5", "s6", "s7">>

\* the k-th line the CLI writes: the first entry of a new session
PreviewEntry(k) ==
  MsgEntry(SessionIds[k], k, IF k % 2 = 1 THEN RA ELSE RB, "user", <<"m">>)

InitPreview ==
  /\ dirs = {NameA}
  /\ unreadable = {}
  /\ files = [n \in ProjectNames |-> <<>>]
  /\ config = NoConfig
  /\ configBroken = FALSE
  /\ cache = NoCache
  /\ last = NoOp
  /\ calls = NoCalls

NextPreview ==
  \/ WriterNewFile(NameA, MaxFiles)
  \/ \E f \in 1..Len(files[NameA]) :
       /\ TotalLines(NameA) < MaxPreviewTotal
       /\ TotalLines(NameA) < Len(SessionIds)
       /\ WriterAppend(NameA, f, PreviewEntry(TotalLines(NameA) + 1))
  \/ \E p \in AddPaths, x \in AddNames : AddManually(p, x)
  \/ Invalidate
  \/ List

SpecPreview == InitPreview /\ [][NextPreview]_vars

\* C22: in a listing every project with a directory carries
\* sessionsFor(name, 5, 0).sessions, at most five, with that call's total and
\* hasMore, and the path resolve(name) returns; every manually added project
\* without a directory carries no session, total 0, hasMore false, and its
\* configured originalPath.
C22_ListPreview ==
  [][last'.op = "list" =>
       \A i \in 1..Len(last'.projects) :
         LET p == last'.projects[i]
         IN IF p.name \in dirs
              THEN LET r == GetSessions(p.name, 5, 0)
                   IN /\ Len(p.sessions) <= 5
                      /\ p.sessions = r.sessions
                      /\ p.total = r.total
                      /\ p.hasMore = r.hasMore
                      /\ p.fullPath = ExtractProjectDirectory(p.name, cache).path
                      /\ p.fullPath = cache'[p.name]
              ELSE /\ p.sessions = <<>>
                   /\ p.total = 0
                   /\ ~p.hasMore
                   /\ p.fullPath = ConfigGet(config, p.name).originalPath]_vars

\* a listing of a project with six sessions, five of them shown, next to a
\* manually added project
C22_Witness ==
  /\ last.op = "list"
  /\ Len(last.projects) = 2
  /\ last.projects[1].total = 6
  /\ last.projects[1].hasMore
  /\ Len(last.projects[1].sessions) = 5
  /\ last.projects[2].fullPath = PB

---------------------------------------------------------------------------
(* The resolver cache under every operation *)

InitCache ==
  /\ dirs = {}
  /\ unreadable = {}
  /\ files = [n \in ProjectNames |-> <<>>]
  /\ config = NoConfig
  /\ configBroken = FALSE
  /\ cache = NoCache
  /\ last = NoOp
  /\ calls = NoCalls

NextCache ==
  \/ \E n \in ProjectNames : MkProject(n)
  \/ WriterNewFile(NameA, MaxCatFiles)
  \/ \E f \in 1..Len(files[NameA]), l \in CatLines :
       Len(files[NameA][f].lines) < MaxCatLines /\ WriterAppend(NameA, f, l)
  \/ \E n \in ProjectNames : Resolve(n)
  \/ Invalidate
  \/ List
  \/ \E x \in AddNames : Rename(NameA, x)
  \/ \E p \in AddPaths : AddManually(p, NoStr)
  \/ DeleteEmpty(NameA)
  \/ DeleteSessionOp(NameA, "s1")
  \/ \E limit \in 1..MaxLimit : Sessions(NameA, limit, 0)

SpecCache == InitCache /\ [][NextCache]_vars

\* every cached path is still cached, unaltered
CacheKept == \A n \in DOMAIN cache : n \in DOMAIN cache' /\ cache'[n] = cache[n]

\* C23: rename, addManually, deleteEmpty, deleteSession and sessionsFor leave
\* the cache as it is; a resolve adds the name it missed and nothing else; list
\* only adds; invalidate empties; nothing else removes or alters an entry.
C23_CacheFrame ==
  [][/\ last'.op \in {"rename", "addManually", "deleteEmpty", "deleteSession", "sessions"} =>
          cache' = cache
     /\ last'.op = "resolve" =>
          /\ DOMAIN cache' = DOMAIN cache \cup {last'.name}
          /\ CacheKept
     /\ last'.op = "list" => CacheKept
     /\ last'.op = "invalidate" => cache' = NoCache
     /\ last'.op # "invalidate" => CacheKept]_vars

\* a deleteEmpty went through and the path of the deleted project is still
\* cached, next to the path of another project
C23_Witness ==
  /\ last.op = "deleteEmpty" /\ last.ok
  /\ last.name \in DOMAIN cache
  /\ last.name \notin dirs
  /\ DOMAIN cache = ProjectNames

---------------------------------------------------------------------------
(* The fallback of the resolver on identifiers built by addManually *)

FallbackPaths == {PA, PSlash, PLong, PDash}

FallbackNames == {Encode(PathResolve(p)) : p \in FallbackPaths}

NameDash == Encode(PDash)

MaxFallbackLines == 1 \* lines per log file in the fallback specification

InitFallback ==
  /\ dirs = {}
  /\ unreadable = {}
  /\ files = [n \in FallbackNames |-> <<>>]
  /\ config = NoConfig
  /\ configBroken = FALSE
  /\ cache = NoCache
  /\ last = NoOp
  /\ calls = NoCalls

NextFallback ==
  \/ \E p \in FallbackPaths : AddManually(p, NoStr)
  \/ MkProject(NameDash)
  \/ WriterNewFile(NameDash, MaxCatFiles)
  \/ \E f \in 1..Len(files[NameDash]) :
       /\ Len(files[NameDash][f].lines) < MaxFallbackLines
       /\ WriterAppend(NameDash, f, BareEntry("s1", NoStr))
  \/ \E n \in FallbackNames : Resolve(n)
  \/ Invalidate

SpecFallback == InitFallback /\ [][NextFallback]_vars

\* the project has no log entry with a cwd
NoCwdLogged(name) ==
  \A f \in 1..Len(files[name]) : \A i \in 1..Len(files[name][f].lines) :
    files[name][f].lines[i].kind # "json" \/ files[name][f].lines[i].cwd = NoStr

\* a scanning resolve of the identifier addManually built for path p, the
\* project having no log entry with a cwd
FallbackFor(p) ==
  /\ last.op = "resolve" /\ last.miss
  /\ last.name = Encode(PathResolve(p))
  /\ ConfigGet(config, last.name).manuallyAdded
  /\ NoCwdLogged(last.name)

\* C24 as stated: the fallback returns the path the identifier was built from,
\* for every absolute path.
C24_AsStated == \A p \in FallbackPaths : FallbackFor(p) => last.path = p

\* the path is in normal form and holds no marker character
Reversible(p) == PathResolve(p) = p /\ \A i \in 1..Len(p) : p[i] # "-"

\* C24 amended: the fallback returns the path the identifier was built from
\* when that path is in normal form and holds no "-".
C24_FallbackDecodes ==
  \A p \in FallbackPaths : (FallbackFor(p) /\ Reversible(p)) => last.path = p

\* the fallback gave back a path of four components
C24_Witness == FallbackFor(PLong) /\ last.path = PLong

---------------------------------------------------------------------------
(* Further claims about the catalog *)

\* the names a listing holds
NamesIn(projects) == {projects[i].name : i \in 1..Len(projects)}

\* C25: a rename leaves the manuallyAdded flag and the originalPath of the
\* project's entry and the entries of the other projects as they were, and
\* with them the names list() returns.
C25_RenameFrame ==
  [][last'.op = "rename" =>
       /\ ConfigGet(config', last'.name).manuallyAdded =
            ConfigGet(config, last'.name).manuallyAdded
       /\ ConfigGet(config', last'.name).originalPath =
            ConfigGet(config, last'.name).originalPath
       /\ \A n \in ProjectNames :
            n # last'.name =>
              /\ ConfigHas(config', n) = ConfigHas(config, n)
              /\ ConfigGet(config', n) = ConfigGet(config, n)
       /\ NamesIn(ListGiven(config')) = NamesIn(ListNow)]_vars

---------------------------------------------------------------------------
(* Entries without a sessionId *)

MaxAnonTotal == 3  \* lines the specification of such entries lets the project hold

AnonLines ==
  {MsgEntry("s1", 1, RA, "user", <<"a">>),
   CwdEntry(RB, 2),
   Line("json", "", "summary", 3, NoStr, <<"t">>, "user", <<"z">>, TRUE)}

InitAnon ==
  /\ dirs = {NameA}
  /\ unreadable = {}
  /\ files = [n \in {NameA} |-> <<>>]
  /\ config = NoConfig
  /\ configBroken = FALSE
  /\ cache = NoCache
  /\ last = NoOp
  /\ calls = NoCalls

NextAnon ==
  \/ WriterNewFile(NameA, MaxFiles)
  \/ \E f \in 1..Len(files[NameA]), l \in AnonLines :
       TotalLines(NameA) < MaxAnonTotal /\ WriterAppend(NameA, f, l)
  \/ Resolve(NameA)
  \/ Invalidate
  \/ \E limit \in 1..MaxLimit : Sessions(NameA, limit, 0)

SpecAnon == InitAnon /\ [][NextAnon]_vars

\* the log files with the entries that have no sessionId taken out
WithoutAnon(fs) ==
  LET Keep(l) == l.kind # "json" \/ l.sessionId # ""
  IN [i \in 1..Len(fs) |-> [fs[i] EXCEPT !.lines = SelectSeq(@, Keep)]]

\* the log files with a sessionId put on the entries that have none
WithSessionIds(fs) ==
  [i \in 1..Len(fs) |->
     [fs[i] EXCEPT !.lines =
        [k \in 1..Len(@) |->
           IF @[k].kind = "json" /\ @[k].sessionId = ""
             THEN [@[k] EXCEPT !.sessionId = "s0"] ELSE @[k]]]]

\* sessionsFor returns what it returns without the entries that have no sessionId
AnonNotAggregated ==
  last.op = "sessions" =>
    LET r == GetSessionsOf(WithoutAnon(files[last.name]), last.limit, last.offset)
    IN /\ last.sessions = r.sessions
       /\ last.total = r.total
       /\ last.hasMore = r.hasMore

\* C26 as stated: entries without a sessionId change nothing in the result of
\* sessionsFor and give no cwd vote to a scanning resolve.
C26_AsStated ==
  /\ AnonNotAggregated
  /\ (last.op = "resolve" /\ last.miss) =>
       last.path = ScanListed(last.name, WithoutAnon(files[last.name])).path

\* C26 amended: entries without a sessionId change nothing in the result of
\* sessionsFor, and their cwd counts in a scanning resolve as it would with a
\* sessionId.
C26_AnonEntries ==
  /\ AnonNotAggregated
  /\ (last.op = "resolve" /\ last.miss) =>
       last.path = ScanListed(last.name, WithSessionIds(files[last.name])).path

\* a scanning resolve returned the cwd that only an entry without a sessionId
\* names, the log holding an entry of a session as well
C26_Witness ==
  /\ last.op = "resolve" /\ last.miss
  /\ last.path = RB
  /\ FilesWith(last.name, "s1") # {}

---------------------------------------------------------------------------
(* Calls whose awaits interleave *)

MaxCalls == 2      \* calls started in a behaviour of the interleaving specifications

\* a call between its read and its write: what it was given and what it read
Call(op, name, arg, doc) ==
  [op |-> op, name |-> name, arg |-> arg, doc |-> doc, pc |-> "read", old |-> FALSE,
   alone |-> \A i \in 1..Len(calls) : calls[i].pc = "done"]

\* the calls in flight learn that another call has started
Joined == [i \in 1..Len(calls) |->
             IF calls[i].pc = "read" THEN [calls[i] EXCEPT !.alone = FALSE] ELSE calls[i]]

\* renameProject up to the return of loadProjectConfig
RenameLoad(name, newDisplayName) ==
  /\ Len(calls) < MaxCalls
  /\ calls' = Append(Joined, Call("rename", name, newDisplayName, LoadProjectConfig))
  /\ last' = [NoOp EXCEPT !.op = "renameLoad", !.name = name, !.arg = newDisplayName]
  /\ UNCHANGED <<dirs, unreadable, files, config, configBroken, cache>>

\* renameProject from there on: the change and saveProjectConfig
RenameSave(i) ==
  /\ i \in 1..Len(calls)
  /\ calls[i].op = "rename" /\ calls[i].pc = "read"
  /\ config' = RenameIn(calls[i].doc, calls[i].name, calls[i].arg)
  /\ calls' = [calls EXCEPT ![i].pc = "done"]
  /\ last' = [NoOp EXCEPT !.op = "rename", !.name = calls[i].name, !.arg = calls[i].arg]
  /\ UNCHANGED <<dirs, unreadable, files, configBroken, cache>>

InitRenames ==
  /\ dirs = {}
  /\ unreadable = {}
  /\ files = [n \in ProjectNames |-> <<>>]
  /\ config = NoConfig
  /\ configBroken = FALSE
  /\ cache = NoCache
  /\ last = NoOp
  /\ calls = NoCalls

NextRenames ==
  \/ \E n \in ProjectNames, x \in RenameInputs : RenameLoad(n, x)
  \/ \E i \in 1..MaxCalls : RenameSave(i)

SpecRenames == InitRenames /\ [][NextRenames]_vars

\* two renames of distinct projects to non-empty names have both returned
TwoRenamesDone ==
  /\ Len(calls) = 2
  /\ calls[1].pc = "done" /\ calls[2].pc = "done"
  /\ calls[1].name # calls[2].name
  /\ Trim(calls[1].arg) # NoStr /\ Trim(calls[2].arg) # NoStr

\* the override call i asked for is in the document
Holds(i) == ConfigGet(config, calls[i].name).displayName = Trim(calls[i].arg)

\* C27: of two renames of distinct projects, run one after the other, the
\* document holds both overrides; run with their loads and saves interleaved,
\* it holds the one saved last and has lost the other.
C27_LastWriterWins ==
  TwoRenamesDone =>
    IF calls[1].alone /\ calls[2].alone
      THEN Holds(1) /\ Holds(2)
      ELSE /\ Holds(1) # Holds(2)
           /\ Holds(1) => last.name = calls[1].name
           /\ Holds(2) => last.name = calls[2].name

\* two interleaved renames have returned and the override of the first is lost
C27_Witness ==
  /\ TwoRenamesDone
  /\ ~calls[1].alone
  /\ ~Holds(1) /\ Holds(2)
  /\ ~ConfigHas(config, calls[1].name)

\* two renames run one after the other have returned
C27_WitnessSequential == TwoRenamesDone /\ calls[1].alone /\ calls[2].alone

---------------------------------------------------------------------------
(* Scans in flight while the logs change and the cache is cleared *)

MaxScanLines == 1    \* lines per file in the specification of scans in flight

\* extractProjectDirectory on a miss, up to the end of its reading: the
\* directory listing and the lines are awaited, and what the scan has read it
\* does not read again
ResolveStart(name) ==
  /\ name \notin DOMAIN cache
  /\ Len(calls) < MaxCalls
  /\ calls' = Append(Joined, Call("resolve", name, NoStr, ScanProject(name)))
  /\ last' = [NoOp EXCEPT !.op = "resolveStart", !.name = name]
  /\ UNCHANGED <<dirs, unreadable, files, config, configBroken, cache>>

\* the rest of the miss: projectDirectoryCache.set and the return; the path
\* that an earlier call had cached for the name is overwritten
ResolveFinish(i) ==
  /\ i \in 1..Len(calls)
  /\ calls[i].op = "resolve" /\ calls[i].pc = "read"
  /\ cache' = [n \in DOMAIN cache \cup {calls[i].name} |->
                 IF n = calls[i].name THEN calls[i].doc.path ELSE cache[n]]
  /\ calls' = [j \in 1..Len(calls) |->
                 IF j = i THEN [calls[j] EXCEPT !.pc = "done"]
                 ELSE IF calls[j].pc = "done" /\ calls[j].name = calls[i].name
                   THEN [calls[j] EXCEPT !.pc = "over"]
                   ELSE calls[j]]
  /\ last' = [NoOp EXCEPT !.op = "resolve", !.name = calls[i].name, !.miss = TRUE,
                          !.path = calls[i].doc.path, !.scanned = calls[i].doc.scanned]
  /\ UNCHANGED <<dirs, unreadable, files, config, configBroken>>

InitScans ==
  /\ dirs = {NameA}
  /\ unreadable = {}
  /\ files = [n \in {NameA} |-> <<>>]
  /\ config = NoConfig
  /\ configBroken = FALSE
  /\ cache = NoCache
  /\ last = NoOp
  /\ calls = NoCalls

NextScans ==
  \/ Resolve(NameA)
  \/ ResolveStart(NameA)
  \/ \E i \in 1..MaxCalls : ResolveFinish(i)
  \/ Invalidate
  \/ WriterNewFile(NameA, MaxFiles)
  \/ \E f \in 1..Len(files[NameA]), l \in MemoLines :
       Len(files[NameA][f].lines) < MaxScanLines /\ WriterAppend(NameA, f, l)

SpecScans == InitScans /\ [][NextScans]_vars

\* the path cached for the name was put there by a scan that started before
\* the last invalidate()
CachedByOldScan(name) ==
  \E i \in 1..Len(calls) :
    /\ calls[i].op = "resolve" /\ calls[i].pc = "done" /\ calls[i].old
    /\ calls[i].name = name
    /\ name \in DOMAIN cache /\ cache[name] = calls[i].doc.path

\* C28: a resolve that begins after invalidate() (here: one that begins and
\* returns in one step, served from the cache) never returns a path computed by a
\* scan that started before that invalidate().
C28_InvalidateEffective ==
  ~(/\ last.op = "resolve" /\ ~last.miss
    /\ CachedByOldScan(last.name)
    /\ last.path = cache[last.name])

---------------------------------------------------------------------------
(* A client paging through the sessions of a project whose logs are at rest *)

MaxPageFiles == 4  \* log files in the paging specification
MaxPageLines == 1  \* lines per log file in the paging specification

PageLines ==
  {MsgEntry("s1", 1, RA, "user", <<"a">>),
   MsgEntry("s2", 2, RA, "user", <<"b">>),
   MsgEntry("s3", 3, RA, "user", <<"c">>)}

\* sessionsFor(name, limit, offset) called by a client that pages: the client
\* keeps the limit, the next offset, the sessions received and the totals reported
PageCall(name, limit, offset, sofar, totals, i) ==
  LET r == GetSessions(name, limit, offset)
      c == [Call("page", name, NoStr,
                 [limit |-> limit, offset |-> offset + limit,
                  sessions |-> sofar \o r.sessions, totals |-> Append(totals, r.total)])
              EXCEPT !.pc = IF r.hasMore THEN "read" ELSE "done"]
  IN /\ calls' = IF i = 0 THEN Append(calls, c) ELSE [calls EXCEPT ![i] = c]
     /\ last' = [NoOp EXCEPT !.op = "sessions", !.name = name,
                             !.limit = limit, !.offset = offset,
                             !.sessions = r.sessions, !.hasMore = r.hasMore,
                             !.total = r.total, !.scanned = r.processed]
     /\ UNCHANGED <<dirs, unreadable, files, config, configBroken, cache>>

\* the first page
PageStart(name, limit) ==
  /\ calls = NoCalls
  /\ PageCall(name, limit, 0, <<>>, <<>>, 0)

\* the next page, asked for because the last one said hasMore
PageNext(i) ==
  /\ i \in 1..Len(calls)
  /\ calls[i].op = "page" /\ calls[i].pc = "read"
  /\ PageCall(calls[i].name, calls[i].doc.limit, calls[i].doc.offset,
              calls[i].doc.sessions, calls[i].doc.totals, i)

InitPaging ==
  /\ dirs = {NameA}
  /\ unreadable = {}
  /\ files = [n \in {NameA} |-> <<>>]
  /\ config = NoConfig
  /\ configBroken = FALSE
  /\ cache = NoCache
  /\ last = NoOp
  /\ calls = NoCalls

\* the logs change only while no client is paging
NextPaging ==
  \/ calls = NoCalls /\ WriterNewFile(NameA, MaxPageFiles)
  \/ \E f \in 1..Len(files[NameA]), l \in PageLines :
       /\ calls = NoCalls
       /\ Len(files[NameA][f].lines) < MaxPageLines
       /\ WriterAppend(NameA, f, l)
  \/ \E limit \in 1..MaxLimit : PageStart(NameA, limit)
  \/ PageNext(1)

SpecPaging == InitPaging /\ [][NextPaging]_vars

\* the client has received its last page
PagingDone == Len(calls) = 1 /\ calls[1].op = "page" /\ calls[1].pc = "done"

\* what the pages hold together: every session of the logs once, and one total
PagesConsistent ==
  LET got == calls[1].doc.sessions
      totals == calls[1].doc.totals
  IN /\ \A i, j \in 1..Len(got) : got[i].id = got[j].id => i = j
     /\ {got[i].id : i \in 1..Len(got)} = DistinctIn(calls[1].name, Len(files[calls[1].name]))
     /\ \A i, j \in 1..Len(totals) : totals[i] = totals[j]

\* C29: the pages of a fixed limit, asked for on unchanged logs until hasMore
\* is false, hold every session of the logs exactly once, and every call reports
\* the same total.
C29_PagingConsistent == PagingDone => PagesConsistent

---------------------------------------------------------------------------
(* deleteSession while the CLI appends to the logs *)

MaxRaceTotal == 3  \* lines the project holds in the specification of the racing delete

RaceLines ==
  {MsgEntry("s1", 1, RA, "user", <<"a">>),
   MsgEntry("s2", 2, RA, "user", <<"b">>)}

NoneInFlight == \A i \in 1..Len(calls) : calls[i].pc = "done"

\* what deleteSession holds after fs.readFile of the file at index f
DeleteRead(sessionId, f, count, lines) ==
  [sessionId |-> sessionId, file |-> f, count |-> count, lines |-> lines]

\* deleteSession up to the return of the first fs.readFile; readdir listed
\* the count of files
DeleteStart(name, sessionId) ==
  /\ NoneInFlight
  /\ name \in dirs /\ name \notin unreadable
  /\ files[name] # <<>> /\ files[name][1].readable
  /\ calls' = <<Call("deleteSession", name, NoStr,
                     DeleteRead(sessionId, 1, Len(files[name]), files[name][1].lines))>>
  /\ last' = [NoOp EXCEPT !.op = "deleteRead", !.name = name, !.sid = sessionId, !.file = 1]
  /\ UNCHANGED <<dirs, unreadable, files, config, configBroken, cache>>

\* deleteSession from one await to the next: with the content it read, either
\* fs.writeFile of the filtered lines and return true, or fs.readFile of the next
\* file, or the throw after the last file
DeleteStep(i) ==
  /\ i \in 1..Len(calls)
  /\ calls[i].op = "deleteSession" /\ calls[i].pc = "read"
  /\ LET name == calls[i].name
         d == calls[i].doc
     IN IF HasSession([lines |-> d.lines], d.sessionId)
          THEN /\ files' = [files EXCEPT ![name] =
                              Touch([@ EXCEPT ![d.file].lines = FilterLines(d.lines, d.sessionId)],
                                    d.file)]
               /\ calls' = [calls EXCEPT ![i].pc = "done"]
               /\ last' = [NoOp EXCEPT !.op = "deleteSession", !.name = name, !.ok = TRUE,
                                       !.sid = d.sessionId, !.file = d.file]
        ELSE IF d.file < d.count /\ files[name][d.file + 1].readable
          THEN /\ calls' = [calls EXCEPT ![i].doc =
                              DeleteRead(d.sessionId, d.file + 1, d.count,
                                         files[name][d.file + 1].lines)]
               /\ last' = [NoOp EXCEPT !.op = "deleteRead", !.name = name,
                                       !.sid = d.sessionId, !.file = d.file + 1]
               /\ UNCHANGED files
          ELSE /\ calls' = [calls EXCEPT ![i].pc = "done"]
               /\ last' = [NoOp EXCEPT !.op = "deleteSession", !.name = name, !.ok = FALSE,
                                       !.sid = d.sessionId]
               /\ UNCHANGED files
  /\ UNCHANGED <<dirs, unreadable, config, configBroken, cache>>

InitDeleteRace ==
  /\ dirs = {NameA}
  /\ unreadable = {}
  /\ files = [n \in {NameA} |-> <<>>]
  /\ config = NoConfig
  /\ configBroken = FALSE
  /\ cache = NoCache
  /\ last = NoOp
  /\ calls = NoCalls

\* the CLI appends at any time; the set of files is at rest while a call runs
NextDeleteRace ==
  \/ NoneInFlight /\ WriterNewFile(NameA, MaxFiles)
  \/ \E f \in 1..Len(files[NameA]), l \in RaceLines :
       TotalLines(NameA) < MaxRaceTotal /\ WriterAppend(NameA, f, l)
  \/ \E sid \in DelIds : DeleteStart(NameA, sid)
  \/ DeleteStep(1)

SpecDeleteRace == InitDeleteRace /\ [][NextDeleteRace]_vars

\* s ends with t
EndsWith(s, t) == Len(t) <= Len(s) /\ SubSeq(s, Len(s) - Len(t) + 1, Len(s)) = t

\* the lines of other sessions appended to the file since call i read it
AppendedSince(i) ==
  LET d == calls[i].doc
      now == files[calls[i].name][d.file].lines
  IN FilterLines(SubSeq(now, Len(d.lines) + 1, Len(now)), d.sessionId)

\* C30: when deleteSession rewrites a file, the lines of other sessions that
\* were appended to the file since deleteSession read it are still in the file,
\* at its end.
C30_NoLostAppend ==
  [][\A i \in 1..Len(calls) :
       (/\ calls[i].op = "deleteSession" /\ calls[i].pc = "read"
        /\ calls'[i].pc = "done" /\ last'.op = "deleteSession" /\ last'.ok) =>
         EndsWith(files'[calls[i].name][calls[i].doc.file].lines, AppendedSince(i))]_vars

====
